---- MODULE Spec2Model ----
(***************************************************************************)
(* The scheduler's announcer (scheduler/announcer/announcer.go): New        *)
(* registers the scheduler with the manager, Serve starts the keepalive    *)
(* goroutine and, when a trainer client was given, runs the training loop  *)
(* (a ticker raced against the done channel); every tick runs train, which *)
(* opens one trainer stream, uploads the download and the network topology *)
(* datasets from two errgroup goroutines, and closes the stream.            *)
(***************************************************************************)
EXTENDS Integers, Sequences, FiniteSets, TLC

\* ------------------------------------------------------------------ bounds

\* Training rounds the loop may start (the tick branch is guarded by it).
MaxRounds == 2
\* Calls of Stop the caller may make.
MaxStops == 2
\* Longest dataset, in bytes, a storage reader may hold.
MaxLen == 3

\* UploadBufferSize is 1024 * 1024 in the source; the model scales the buffer
\* down so that datasets of k buffers and a rest stay small.
UploadBufferSize == 2

Rounds == 1..MaxRounds

\* The two upload goroutines of a round.
Tasks == {"download", "networkTopology"}

\* oneof variant of the TrainRequest a task sends.
Variant(t) == IF t = "download" THEN "mlp" ELSE "gnn"

\* Prefix of fmt.Errorf in the task's errgroup closure.
Stage(t) == IF t = "download" THEN "upload download" ELSE "upload network topology"

\* An error value: the stage prefix it was wrapped with ("" when unwrapped)
\* and the call that failed ("nil": no error).
NoErr == [stage |-> "", cause |-> "nil"]

Wrap(stage, cause) == [stage |-> stage, cause |-> cause]

Min(a, b) == IF a < b THEN a ELSE b

\* The bytes of a dataset of length len: byte i has value i.
Dataset(len) == [i \in 1..len |-> i]

\* ------------------------------------------------------------------- state

VARIABLES
    registered,     \* result of UpdateScheduler in New: "none" | "ok" | "failed"
    updateCalls,    \* number of UpdateScheduler calls issued
    announcer,      \* what New returned: "none" (not called) | "nil" | "obj"
    trainerClient,  \* a.trainerClient != nil
    done,           \* a.done: "open" | "closed"
    stopCalls,      \* calls of Stop made
    stopReturns,    \* calls of Stop that returned nil
    panicked,       \* close of closed channel: the process has crashed
    keepAlive,      \* keepalive goroutine: "none" | "spawned" | "running" |
                    \* "returned" | "crashed"
    keepAliveCalls, \* number of KeepAlive calls issued
    servePc,        \* Serve: "idle" | "select" | "train" | "returned" | "crashed"
    tick,           \* a tick is pending in tick.C (a channel of capacity 1)
    nRounds,        \* calls of train begun
    round,          \* per call of train: its position and locals
    task,           \* per call of train and upload goroutine: position and locals
    roundsAfterStop,\* calls of train begun while done was closed
    sendAfterStop,  \* a Send began while done was closed
    sendAfterReturn,\* a Send began after announceToTrainer had returned
    serveAfterStop, \* Serve was called when done was already closed
    trainCalls,     \* number of trainerClient.Train calls issued
    errorLogged     \* the loop has logged the error of the call of train that
                    \* just returned and has not selected again yet

vars == <<registered, updateCalls, announcer, trainerClient, done, stopCalls,
          stopReturns, panicked, keepAlive, keepAliveCalls, servePc, tick,
          nRounds, round, task, roundsAfterStop, sendAfterStop, sendAfterReturn,
          serveAfterStop, trainCalls, errorLogged>>

\* Locals of a call of train that has not begun or has returned.
\* expired: the deadline of ctx has passed; failed: the tasks that returned
\* an error, in the order they returned.
IdleRound == [pc |-> "idle", stream |-> "none", egErr |-> NoErr, err |-> NoErr,
              closeAndRecv |-> 0, expired |-> FALSE, failed |-> <<>>]

ReturnedRound == [IdleRound EXCEPT !.pc = "returned"]

\* Locals of an upload goroutine that has not been started.
IdleTask == [pc |-> "idle", reader |-> "none", len |-> 0, pos |-> 0,
             buf |-> [i \in 1..UploadBufferSize |-> 0], n |-> 0, rerr |-> "nil",
             sent |-> <<>>, reads |-> 0, closes |-> 0, err |-> "nil"]

Init ==
    /\ registered = "none"
    /\ updateCalls = 0
    /\ announcer = "none"
    /\ trainerClient = FALSE
    /\ done = "open"
    /\ stopCalls = 0
    /\ stopReturns = 0
    /\ panicked = FALSE
    /\ keepAlive = "none"
    /\ keepAliveCalls = 0
    /\ servePc = "idle"
    /\ tick = FALSE
    /\ nRounds = 0
    /\ round = [i \in Rounds |-> IdleRound]
    /\ task = [i \in Rounds |-> [t \in Tasks |-> IdleTask]]
    /\ roundsAfterStop = 0
    /\ sendAfterStop = FALSE
    /\ sendAfterReturn = FALSE
    /\ serveAfterStop = FALSE
    /\ trainCalls = 0
    /\ errorLogged = FALSE

\* ------------------------------------------------------- New, Serve, Stop

\* New as it would be if it handed the announcer out despite the
\* registration error.
NewKeepsObject(regOk, withTrainer) ==
    /\ announcer = "none"
    /\ updateCalls' = updateCalls + 1
    /\ registered' = IF regOk THEN "ok" ELSE "failed"
    /\ announcer' = "obj"
    /\ trainerClient' = withTrainer
    /\ UNCHANGED <<done, stopCalls, stopReturns, panicked, keepAlive,
                   keepAliveCalls, servePc, tick, nRounds, round, task,
                   roundsAfterStop, sendAfterStop, sendAfterReturn,
                   serveAfterStop, trainCalls, errorLogged>>

\* New: builds the announcer, applies the options, registers to the manager;
\* on a registration error it returns (nil, err).
New(regOk, withTrainer) ==
    /\ announcer = "none"
    /\ updateCalls' = updateCalls + 1
    /\ registered' = IF regOk THEN "ok" ELSE "failed"
    /\ announcer' = IF regOk THEN "obj" ELSE "nil"
    /\ trainerClient' = withTrainer
    /\ UNCHANGED <<done, stopCalls, stopReturns, panicked, keepAlive,
                   keepAliveCalls, servePc, tick, nRounds, round, task,
                   roundsAfterStop, sendAfterStop, sendAfterReturn,
                   serveAfterStop, trainCalls, errorLogged>>

\* Serve as it would be if announceToManager registered again before the
\* keepalive.
ServeRegisters ==
    /\ ~panicked
    /\ announcer = "obj"
    /\ servePc = "idle"
    /\ updateCalls' = updateCalls + 1
    /\ keepAlive' = "spawned"
    /\ serveAfterStop' = (done = "closed")
    /\ servePc' = IF trainerClient THEN "select" ELSE "returned"
    /\ UNCHANGED <<registered, announcer, trainerClient, done,
                   stopCalls, stopReturns, panicked, keepAliveCalls, tick,
                   nRounds, round, task, roundsAfterStop, sendAfterStop,
                   sendAfterReturn,
                   trainCalls, errorLogged>>

\* Serve as it would be without the test a.trainerClient != nil.
ServeAlwaysTrains ==
    /\ ~panicked
    /\ announcer = "obj"
    /\ servePc = "idle"
    /\ keepAlive' = "spawned"
    /\ serveAfterStop' = (done = "closed")
    /\ servePc' = "select"
    /\ UNCHANGED <<registered, updateCalls, announcer, trainerClient, done,
                   stopCalls, stopReturns, panicked, keepAliveCalls, tick,
                   nRounds, round, task, roundsAfterStop, sendAfterStop,
                   sendAfterReturn, trainCalls, errorLogged>>

\* Serve up to the select of announceToTrainer: announceToManager starts the
\* keepalive goroutine and returns nil; without a trainer client Serve
\* returns nil, with one it creates the ticker and enters the loop.
Serve ==
    /\ ~panicked
    /\ announcer = "obj"
    /\ servePc = "idle"
    /\ keepAlive' = "spawned"
    /\ serveAfterStop' = (done = "closed")
    /\ servePc' = IF trainerClient THEN "select" ELSE "returned"
    /\ UNCHANGED <<registered, updateCalls, announcer, trainerClient, done,
                   stopCalls, stopReturns, panicked, keepAliveCalls, tick,
                   nRounds, round, task, roundsAfterStop, sendAfterStop,
                   sendAfterReturn,
                   trainCalls, errorLogged>>

\* Stop: close(a.done); closing a closed channel panics, which ends the
\* process: its goroutines and their locals are gone with it.
Stop ==
    /\ ~panicked
    /\ announcer = "obj"
    /\ stopCalls < MaxStops
    /\ stopCalls' = stopCalls + 1
    /\ IF done = "open"
         THEN /\ done' = "closed"
              /\ stopReturns' = stopReturns + 1
              /\ UNCHANGED <<panicked, keepAlive, servePc, tick, round, task,
                             errorLogged>>
         ELSE /\ panicked' = TRUE
              /\ errorLogged' = FALSE
              /\ keepAlive' = "crashed"
              /\ servePc' = "crashed"
              /\ tick' = FALSE
              /\ round' = [i \in Rounds |-> IdleRound]
              /\ task' = [i \in Rounds |-> [t \in Tasks |-> IdleTask]]
              /\ UNCHANGED <<done, stopReturns>>
    /\ UNCHANGED <<registered, updateCalls, announcer, trainerClient,
                   keepAliveCalls, nRounds, roundsAfterStop, sendAfterStop,
                   sendAfterReturn, serveAfterStop, trainCalls>>

\* The goroutine of announceToManager calls managerClient.KeepAlive with a.done.
KeepAliveCall ==
    /\ ~panicked
    /\ keepAlive = "spawned"
    /\ keepAlive' = "running"
    /\ keepAliveCalls' = keepAliveCalls + 1
    /\ UNCHANGED <<registered, updateCalls, announcer, trainerClient, done,
                   stopCalls, stopReturns, panicked, servePc, tick, nRounds,
                   round, task, roundsAfterStop, sendAfterStop, sendAfterReturn,
                   serveAfterStop, trainCalls, errorLogged>>

\* KeepAlive runs until the done channel it was given is closed.
KeepAliveReturn ==
    /\ ~panicked
    /\ keepAlive = "running"
    /\ done = "closed"
    /\ keepAlive' = "returned"
    /\ UNCHANGED <<registered, updateCalls, announcer, trainerClient, done,
                   stopCalls, stopReturns, panicked, keepAliveCalls, servePc,
                   tick, nRounds, round, task, roundsAfterStop, sendAfterStop,
                   sendAfterReturn,
                   serveAfterStop, trainCalls, errorLogged>>

\* ------------------------------------------------------ announceToTrainer

\* The ticker delivers a tick into tick.C, which holds at most one.
Tick ==
    /\ ~panicked
    /\ servePc \in {"select", "train"}
    /\ ~tick
    /\ tick' = TRUE
    /\ UNCHANGED <<registered, updateCalls, announcer, trainerClient, done,
                   stopCalls, stopReturns, panicked, keepAlive, keepAliveCalls,
                   servePc, nRounds, round, task, roundsAfterStop,
                   sendAfterStop, sendAfterReturn,
                   serveAfterStop, trainCalls, errorLogged>>

\* The tick branch as it would be with `go a.train()`: the loop selects again
\* without waiting for the round.
SelectTickGo ==
    /\ ~panicked
    /\ servePc = "select"
    /\ tick
    /\ nRounds < MaxRounds
    /\ tick' = FALSE
    /\ errorLogged' = FALSE
    /\ nRounds' = nRounds + 1
    /\ round' = [round EXCEPT ![nRounds + 1] = [IdleRound EXCEPT !.pc = "train"]]
    /\ roundsAfterStop' = IF done = "closed" THEN roundsAfterStop + 1
                                             ELSE roundsAfterStop
    /\ UNCHANGED <<registered, updateCalls, announcer, trainerClient, done,
                   stopCalls, stopReturns, panicked, keepAlive, keepAliveCalls,
                   servePc, task, sendAfterStop, sendAfterReturn,
                   serveAfterStop, trainCalls>>

\* select takes case <-tick.C and calls train: whenever a tick is pending,
\* also when a.done is closed (select chooses among the ready cases).
SelectTick ==
    /\ ~panicked
    /\ servePc = "select"
    /\ tick
    /\ nRounds < MaxRounds
    /\ tick' = FALSE
    /\ errorLogged' = FALSE
    /\ nRounds' = nRounds + 1
    /\ servePc' = "train"
    /\ round' = [round EXCEPT ![nRounds + 1] = [IdleRound EXCEPT !.pc = "train"]]
    /\ roundsAfterStop' = IF done = "closed" THEN roundsAfterStop + 1
                                             ELSE roundsAfterStop
    /\ UNCHANGED <<registered, updateCalls, announcer, trainerClient, done,
                   stopCalls, stopReturns, panicked, keepAlive, keepAliveCalls,
                   task, sendAfterStop, sendAfterReturn,
                   serveAfterStop, trainCalls>>

\* select takes case <-a.done and announceToTrainer, then Serve, return nil.
SelectDone ==
    /\ ~panicked
    /\ servePc = "select"
    /\ done = "closed"
    /\ servePc' = "returned"
    /\ errorLogged' = FALSE
    /\ UNCHANGED <<registered, updateCalls, announcer, trainerClient, done,
                   stopCalls, stopReturns, panicked, keepAlive, keepAliveCalls,
                   tick, nRounds, round, task, roundsAfterStop, sendAfterStop,
                   sendAfterReturn, serveAfterStop, trainCalls>>

\* ------------------------------------------------------------------ train

\* train after context.WithTimeout: a.trainerClient.Train(ctx) opens the
\* stream (not once the deadline of ctx has passed) and the two upload
\* goroutines are started, or train returns the error of Train as it is.
TrainOpen(i, ok) ==
    /\ ~panicked
    /\ round[i].pc = "train"
    /\ ok => ~round[i].expired
    /\ trainCalls' = trainCalls + 1
    /\ IF ok
         THEN /\ round' = [round EXCEPT ![i].pc = "wait", ![i].stream = "open"]
              /\ task' = [task EXCEPT ![i] = [t \in Tasks |->
                              [IdleTask EXCEPT !.pc = "open"]]]
         ELSE /\ round' = [round EXCEPT ![i].pc = "return",
                                        ![i].err = Wrap("", "train")]
              /\ UNCHANGED task
    /\ UNCHANGED <<registered, updateCalls, announcer, trainerClient, done,
                   stopCalls, stopReturns, panicked, keepAlive, keepAliveCalls,
                   servePc, tick, nRounds, roundsAfterStop, sendAfterStop,
                   sendAfterReturn,
                   serveAfterStop, errorLogged>>

\* The deadline of the round's ctx (context.WithTimeout, UploadTimeout)
\* passes while train is running.
Deadline(i) ==
    /\ ~panicked
    /\ round[i].pc \in {"train", "wait", "close"}
    /\ ~round[i].expired
    /\ round' = [round EXCEPT ![i].expired = TRUE]
    /\ UNCHANGED <<registered, updateCalls, announcer, trainerClient, done,
                   stopCalls, stopReturns, panicked, keepAlive, keepAliveCalls,
                   servePc, tick, nRounds, task, roundsAfterStop, sendAfterStop,
                   sendAfterReturn, serveAfterStop, trainCalls, errorLogged>>

\* The error return as it would be without the deferred Close.
FailedTaskLeaks(tk, cause) ==
    [IdleTask EXCEPT !.pc = "done", !.err = cause, !.reader = tk.reader,
                     !.closes = tk.closes]

\* An upload goroutine returns err: the deferred Close releases the reader it
\* holds, and the function's locals (buffer, counts) are gone.
FailedTask(tk, cause) ==
    [IdleTask EXCEPT !.pc = "done", !.err = cause,
                     !.reader = IF tk.reader = "open" THEN "closed" ELSE tk.reader,
                     !.closes = IF tk.reader = "open" THEN tk.closes + 1 ELSE tk.closes]

\* The errgroup closure as it would be if it returned err without the stage
\* prefix.
FirstErrUnwrapped(r, t, cause) ==
    [r EXCEPT !.egErr = IF r.egErr = NoErr THEN Wrap("", cause) ELSE r.egErr,
              !.failed = Append(r.failed, t)]

\* The group as it would be if every error replaced the one it holds.
FirstErrLastWins(r, t, cause) ==
    [r EXCEPT !.egErr = Wrap(Stage(t), cause),
              !.failed = Append(r.failed, t)]

\* The errgroup closure wraps the error with its stage and the group keeps
\* the first error it is given.
FirstErr(r, t, cause) ==
    [r EXCEPT !.egErr = IF r.egErr = NoErr THEN Wrap(Stage(t), cause) ELSE r.egErr,
              !.failed = Append(r.failed, t)]

\* What one Read of a storage reader may return, as <<n, err>>: the next
\* bytes that fit the buffer, with io.EOF either together with the last bytes
\* or on a later read of 0 bytes, or an error.
ReadResults(tk) ==
    LET avail == tk.len - tk.pos
        n == Min(UploadBufferSize, avail)
    IN  (IF n = 0 THEN {<<0, "EOF">>}
         ELSE {<<n, "nil">>} \cup (IF n = avail THEN {<<n, "EOF">>} ELSE {}))
        \cup {<<0, "error">>}

\* The buffer after a Read of n bytes at position pos: the bytes read
\* overwrite its first n cells, the rest keeps what an earlier Read left.
BufAfterRead(tk, n) ==
    [j \in 1..UploadBufferSize |->
        IF j <= n THEN Dataset(tk.len)[tk.pos + j] ELSE tk.buf[j]]

\* The request as it would be built from buf instead of buf[:n].
MessageWholeBuf(t, tk) == [variant |-> Variant(t), dataset |-> tk.buf]

\* The TrainRequest a task builds from buf[:n].
Message(t, tk) == [variant |-> Variant(t), dataset |-> SubSeq(tk.buf, 1, tk.n)]

\* a.storage.OpenDownload() / OpenNetworkTopology(): a reader over a dataset
\* of some length, or an error the task returns.
TaskOpen(i, t, ok, len) ==
    /\ ~panicked
    /\ task[i][t].pc = "open"
    /\ IF ok
         THEN /\ task' = [task EXCEPT ![i][t].pc = "read", ![i][t].reader = "open",
                                      ![i][t].len = len]
              /\ UNCHANGED round
         ELSE /\ task' = [task EXCEPT ![i][t] = FailedTask(@, "open")]
              /\ round' = [round EXCEPT ![i] = FirstErr(@, t, "open")]
    /\ UNCHANGED <<registered, updateCalls, announcer, trainerClient, done,
                   stopCalls, stopReturns, panicked, keepAlive, keepAliveCalls,
                   servePc, tick, nRounds, roundsAfterStop, sendAfterStop,
                   sendAfterReturn,
                   serveAfterStop, trainCalls, errorLogged>>

\* n, err := readCloser.Read(buf); an error other than io.EOF is returned.
TaskRead(i, t) ==
    /\ ~panicked
    /\ task[i][t].pc = "read"
    /\ \E res \in ReadResults(task[i][t]) :
         IF res[2] = "error"
           THEN /\ task' = [task EXCEPT ![i][t] =
                               FailedTask([task[i][t] EXCEPT !.reads = task[i][t].reads + 1], "read")]
                /\ round' = [round EXCEPT ![i] = FirstErr(@, t, "read")]
           ELSE /\ task' = [task EXCEPT ![i][t] =
                               [@ EXCEPT !.pc = "send",
                                         !.buf = BufAfterRead(task[i][t], res[1]),
                                         !.n = res[1],
                                         !.rerr = res[2],
                                         !.pos = @ + res[1],
                                         !.reads = @ + 1]]
                /\ UNCHANGED round
    /\ UNCHANGED <<registered, updateCalls, announcer, trainerClient, done,
                   stopCalls, stopReturns, panicked, keepAlive, keepAliveCalls,
                   servePc, tick, nRounds, roundsAfterStop, sendAfterStop,
                   sendAfterReturn,
                   serveAfterStop, trainCalls, errorLogged>>

\* The upload loop as it would be if it looked at a.done before each Send
\* and gave up once it is closed.
TaskSendBeginStopAware(i, t) ==
    /\ ~panicked
    /\ task[i][t].pc = "send"
    /\ IF done = "closed"
         THEN /\ task' = [task EXCEPT ![i][t] = FailedTask(@, "stopped")]
              /\ round' = [round EXCEPT ![i] = FirstErr(@, t, "stopped")]
              /\ UNCHANGED <<sendAfterStop, sendAfterReturn>>
         ELSE /\ task' = [task EXCEPT ![i][t].pc = "sending"]
              /\ sendAfterStop' = (sendAfterStop \/ done = "closed")
              /\ sendAfterReturn' = (sendAfterReturn \/ servePc = "returned")
              /\ UNCHANGED round
    /\ UNCHANGED <<registered, updateCalls, announcer, trainerClient, done,
                   stopCalls, stopReturns, panicked, keepAlive, keepAliveCalls,
                   servePc, tick, nRounds, roundsAfterStop,
                   serveAfterStop, trainCalls, errorLogged>>

\* The task enters stream.Send with the request built from buf[:n]: after
\* every Read that did not fail, whatever n is.
TaskSendBegin(i, t) ==
    /\ ~panicked
    /\ task[i][t].pc = "send"
    /\ task' = [task EXCEPT ![i][t].pc = "sending"]
    /\ sendAfterStop' = (sendAfterStop \/ done = "closed")
    /\ sendAfterReturn' = (sendAfterReturn \/ servePc = "returned")
    /\ UNCHANGED <<registered, updateCalls, announcer, trainerClient, done,
                   stopCalls, stopReturns, panicked, keepAlive, keepAliveCalls,
                   servePc, tick, nRounds, round, roundsAfterStop,
                   serveAfterStop, trainCalls, errorLogged>>

\* stream.Send returns (with an error once the deadline of the stream's ctx
\* has passed): on an error the task returns it; otherwise the
\* message is on the stream and the task breaks out of the loop if the Read
\* had returned io.EOF (the reader is closed, the buffer is gone), and reads
\* again if not.
TaskSendEnd(i, t, ok) ==
    /\ ~panicked
    /\ task[i][t].pc = "sending"
    /\ ok => ~round[i].expired
    /\ IF ok
         THEN /\ task' = [task EXCEPT ![i][t] =
                     LET s == [task[i][t] EXCEPT
                                  !.sent = Append(task[i][t].sent, Message(t, task[i][t]))]
                     IN  IF s.rerr = "EOF"
                           THEN [s EXCEPT !.pc = "done", !.reader = "closed",
                                          !.closes = s.closes + 1,
                                          !.buf = IdleTask.buf, !.n = 0,
                                          !.rerr = "nil"]
                           ELSE [s EXCEPT !.pc = "read"]]
              /\ UNCHANGED round
         ELSE /\ task' = [task EXCEPT ![i][t] = FailedTask(@, "send")]
              /\ round' = [round EXCEPT ![i] = FirstErr(@, t, "send")]
    /\ UNCHANGED <<registered, updateCalls, announcer, trainerClient, done,
                   stopCalls, stopReturns, panicked, keepAlive, keepAliveCalls,
                   servePc, tick, nRounds, roundsAfterStop, sendAfterStop,
                   sendAfterReturn,
                   serveAfterStop, trainCalls, errorLogged>>

\* eg.Wait as it would be if it returned as soon as one goroutine had failed.
TrainWaitFirstError(i) ==
    /\ ~panicked
    /\ round[i].pc = "wait"
    /\ \/ round[i].egErr # NoErr
       \/ \A t \in Tasks : task[i][t].pc = "done"
    /\ round' = [round EXCEPT ![i] =
                    IF round[i].egErr # NoErr
                      THEN [round[i] EXCEPT !.pc = "return", !.err = round[i].egErr]
                      ELSE [round[i] EXCEPT !.pc = "close"]]
    /\ UNCHANGED <<registered, updateCalls, announcer, trainerClient, done,
                   stopCalls, stopReturns, panicked, keepAlive, keepAliveCalls,
                   servePc, tick, nRounds, task, roundsAfterStop, sendAfterStop,
                   sendAfterReturn,
                   serveAfterStop, trainCalls, errorLogged>>

\* train as it would be if it dropped the error of eg.Wait and went on to
\* CloseAndRecv.
TrainWaitIgnoresErr(i) ==
    /\ ~panicked
    /\ round[i].pc = "wait"
    /\ \A t \in Tasks : task[i][t].pc = "done"
    /\ round' = [round EXCEPT ![i].pc = "close"]
    /\ UNCHANGED <<registered, updateCalls, announcer, trainerClient, done,
                   stopCalls, stopReturns, panicked, keepAlive, keepAliveCalls,
                   servePc, tick, nRounds, task, roundsAfterStop, sendAfterStop,
                   sendAfterReturn,
                   serveAfterStop, trainCalls, errorLogged>>

\* eg.Wait() returns once both goroutines have returned, with the first
\* error of the group: train returns it, or goes on to CloseAndRecv.
TrainWait(i) ==
    /\ ~panicked
    /\ round[i].pc = "wait"
    /\ \A t \in Tasks : task[i][t].pc = "done"
    /\ round' = [round EXCEPT ![i] =
                    IF round[i].egErr # NoErr
                      THEN [round[i] EXCEPT !.pc = "return", !.err = round[i].egErr]
                      ELSE [round[i] EXCEPT !.pc = "close"]]
    /\ UNCHANGED <<registered, updateCalls, announcer, trainerClient, done,
                   stopCalls, stopReturns, panicked, keepAlive, keepAliveCalls,
                   servePc, tick, nRounds, task, roundsAfterStop, sendAfterStop,
                   sendAfterReturn,
                   serveAfterStop, trainCalls, errorLogged>>

\* stream.CloseAndRecv() (which fails once the deadline of ctx has passed):
\* its error is returned as it is.
TrainCloseAndRecv(i, ok) ==
    /\ ~panicked
    /\ round[i].pc = "close"
    /\ ok => ~round[i].expired
    /\ round' = [round EXCEPT ![i].pc = "return",
                              ![i].stream = "closed",
                              ![i].closeAndRecv = @ + 1,
                              ![i].err = IF ok THEN NoErr
                                               ELSE Wrap("", "closeAndRecv")]
    /\ UNCHANGED <<registered, updateCalls, announcer, trainerClient, done,
                   stopCalls, stopReturns, panicked, keepAlive, keepAliveCalls,
                   servePc, tick, nRounds, task, roundsAfterStop, sendAfterStop,
                   sendAfterReturn,
                   serveAfterStop, trainCalls, errorLogged>>

\* The loop as it would be if it returned the error of train instead of
\* logging it.
TrainReturnFatal(i) ==
    /\ ~panicked
    /\ round[i].pc = "return"
    /\ round' = [round EXCEPT ![i] = ReturnedRound]
    /\ task' = [task EXCEPT ![i] = [t \in Tasks |->
                    IF task[i][t].pc = "done" THEN IdleTask ELSE task[i][t]]]
    /\ servePc' = IF round[i].err # NoErr THEN "returned" ELSE "select"
    /\ errorLogged' = (round[i].err # NoErr)
    /\ UNCHANGED <<registered, updateCalls, announcer, trainerClient, done,
                   stopCalls, stopReturns, panicked, keepAlive, keepAliveCalls,
                   tick, nRounds, roundsAfterStop, sendAfterStop,
                   sendAfterReturn, serveAfterStop, trainCalls>>

\* train returns to the loop, which logs the error and selects again; the
\* locals of the call and of its finished goroutines (stream, buffers,
\* readers) are gone.
TrainReturn(i) ==
    /\ ~panicked
    /\ round[i].pc = "return"
    /\ round' = [round EXCEPT ![i] = ReturnedRound]
    /\ task' = [task EXCEPT ![i] = [t \in Tasks |->
                    IF task[i][t].pc = "done" THEN IdleTask ELSE task[i][t]]]
    /\ servePc' = "select"
    /\ errorLogged' = (round[i].err # NoErr)
    /\ UNCHANGED <<registered, updateCalls, announcer, trainerClient, done,
                   stopCalls, stopReturns, panicked, keepAlive, keepAliveCalls,
                   tick, nRounds, roundsAfterStop, sendAfterStop,
                   sendAfterReturn,
                   serveAfterStop, trainCalls>>

\* ----------------------------------------------------------- specification

\* Every step of the process (each guarded by ~panicked: a panic ends the
\* process and nothing runs after it).
Next ==
    \/ \E regOk \in BOOLEAN, withTrainer \in BOOLEAN : New(regOk, withTrainer)
    \/ Serve
    \/ Stop
    \/ KeepAliveCall
    \/ KeepAliveReturn
    \/ Tick
    \/ SelectTick
    \/ SelectDone
    \/ \E i \in Rounds, ok \in BOOLEAN : TrainOpen(i, ok)
    \/ \E i \in Rounds : Deadline(i)
    \/ \E i \in Rounds, t \in Tasks, ok \in BOOLEAN, len \in 0..MaxLen :
           TaskOpen(i, t, ok, len)
    \/ \E i \in Rounds, t \in Tasks : TaskRead(i, t)
    \/ \E i \in Rounds, t \in Tasks : TaskSendBegin(i, t)
    \/ \E i \in Rounds, t \in Tasks, ok \in BOOLEAN : TaskSendEnd(i, t, ok)
    \/ \E i \in Rounds : TrainWait(i)
    \/ \E i \in Rounds, ok \in BOOLEAN : TrainCloseAndRecv(i, ok)
    \/ \E i \in Rounds : TrainReturn(i)

Spec == Init /\ [][Next]_vars

\* Scheduling: every goroutine that can step eventually does, every call of
\* train's collaborators returns, and select, which picks among its ready
\* cases at random, does not pass over a ready case <-a.done forever.
Fairness ==
    /\ WF_vars(KeepAliveCall)
    /\ WF_vars(KeepAliveReturn)
    /\ SF_vars(SelectDone)
    /\ \A i \in Rounds :
        /\ WF_vars(\E ok \in BOOLEAN : TrainOpen(i, ok))
        /\ WF_vars(Deadline(i))
        /\ WF_vars(TrainWait(i))
        /\ WF_vars(\E ok \in BOOLEAN : TrainCloseAndRecv(i, ok))
        /\ WF_vars(TrainReturn(i))
        /\ \A t \in Tasks :
            /\ WF_vars(\E ok \in BOOLEAN, len \in 0..MaxLen : TaskOpen(i, t, ok, len))
            /\ WF_vars(TaskRead(i, t))
            /\ WF_vars(TaskSendBegin(i, t))
            /\ WF_vars(\E ok \in BOOLEAN : TaskSendEnd(i, t, ok))

FairSpec == Spec /\ Fairness

\* ------------------------------------------------------------ properties

\* A call of train is in progress.
InProgress(i) == round[i].pc \notin {"idle", "returned"}

\* Some heartbeat or training activity has happened: a KeepAlive call, a
\* trainer stream open, a storage open or a Send.
Activity ==
    \/ keepAlive # "none"
    \/ keepAliveCalls > 0
    \/ servePc # "idle"
    \/ nRounds > 0
    \/ \E i \in Rounds : round[i].pc # "idle"
    \/ \E i \in Rounds, t \in Tasks : task[i][t].pc # "idle"
    \/ sendAfterStop
    \/ sendAfterReturn

\* C1: New issues exactly one UpdateScheduler call, which has completed
\* (successfully) before any KeepAlive call, stream open, storage open or
\* Send; no later operation issues a second one.
C1_RegisteredOnceBeforeActivity ==
    /\ updateCalls <= 1
    /\ announcer # "none" => updateCalls = 1
    /\ Activity => (updateCalls = 1 /\ registered = "ok")

\* C1 witness: after one registration the heartbeat has been called and a
\* task has sent a message on a round's stream.
C1_Witness ==
    /\ updateCalls = 1
    /\ keepAliveCalls = 1
    /\ \E i \in Rounds, t \in Tasks : Len(task[i][t].sent) > 0

\* C2: when the registration fails New returns no announcer, and no
\* keepalive, stream open, storage open or Send ever happens.
C2_FailedRegistrationStartsNothing ==
    registered = "failed" => (announcer = "nil" /\ ~Activity)

\* C2 witness: New has returned after a failed registration.
C2_Witness == registered = "failed" /\ announcer = "nil" /\ updateCalls = 1

\* C3 (as claimed): after Stop the loop takes the tick branch at most once
\* more before it returns.
C3_AtMostOneTickAfterStop == roundsAfterStop <= 1

\* C4 (as claimed): no Send begins once Stop has closed done.
C4_NoSendAfterStop == ~sendAfterStop

\* C4 (amended): no Send begins once announceToTrainer has returned, and no
\* upload goroutine is left running then; a round in flight when Stop
\* arrives goes on sending until it returns.
C4_NoSendAfterLoopReturned ==
    /\ ~sendAfterReturn
    /\ servePc = "returned" =>
           \A i \in Rounds, t \in Tasks : task[i][t].pc \in {"idle"}

\* C4 witness: a Send began after Stop, and later the loop returned.
C4_Witness == sendAfterStop /\ servePc = "returned" /\ done = "closed"

\* Messages a dataset of len bytes makes: one per full buffer, one for a rest.
ExpectedSizes(len) ==
    [j \in 1..((len \div UploadBufferSize)
               + (IF len % UploadBufferSize > 0 THEN 1 ELSE 0)) |->
        IF j <= len \div UploadBufferSize THEN UploadBufferSize
                                          ELSE len % UploadBufferSize]

\* Sizes of the payloads a task has sent, in send order.
SentSizes(tk) == [j \in 1..Len(tk.sent) |-> Len(tk.sent[j].dataset)]

\* C5 (as claimed): a successful upload task has sent exactly k full
\* messages and, when r > 0, one partial message: no empty trailing message.
C5_ExactChunkMessages ==
    \A i \in Rounds, t \in Tasks :
        (task[i][t].pc = "done" /\ task[i][t].err = "nil") =>
            SentSizes(task[i][t]) = ExpectedSizes(task[i][t].len)

\* C6: when the download task fails and the network topology task succeeds,
\* train returns the download error wrapped with "upload download", only
\* after both tasks have returned, and CloseAndRecv is not called.
C6_DownloadErrorReported ==
    \A i \in Rounds :
        (round[i].pc = "return" /\ round[i].stream # "none") =>
            /\ \A t \in Tasks : task[i][t].pc = "done"
            /\ (task[i]["download"].err # "nil"
                /\ task[i]["networkTopology"].err = "nil") =>
                   /\ round[i].err = Wrap("upload download", task[i]["download"].err)
                   /\ round[i].closeAndRecv = 0
                   /\ round[i].stream = "open"

\* C6 witness: train is about to return after the download task failed and
\* the network topology task sent its dataset and succeeded.
C6_Witness ==
    \E i \in Rounds :
        /\ round[i].pc = "return"
        /\ task[i]["download"].pc = "done"
        /\ task[i]["download"].err # "nil"
        /\ task[i]["networkTopology"].pc = "done"
        /\ task[i]["networkTopology"].err = "nil"
        /\ Len(task[i]["networkTopology"].sent) > 0

\* C7: at most one call of train is in progress, and round i+1 has begun
\* only if round i has returned.
C7_RoundsNeverOverlap ==
    /\ Cardinality({i \in Rounds : InProgress(i)}) <= 1
    /\ \A i \in Rounds : (i > 1 /\ round[i].pc # "idle") => round[i - 1].pc = "returned"

\* C7 witness: a tick is pending while the second round is still uploading
\* (the round outlasts the tick interval) after the first one returned.
C7_Witness ==
    /\ MaxRounds >= 2
    /\ round[1].pc = "returned"
    /\ round[2].pc = "wait"
    /\ tick
    /\ \E t \in Tasks : task[2][t].pc = "sending"

\* C8: CloseAndRecv is called once in a round whose two tasks succeeded,
\* only after both have returned (so no Send follows it), and never in a
\* round where a task or the stream open failed.
C8_CloseAndRecvOnlyAfterSuccess ==
    \A i \in Rounds :
        /\ round[i].closeAndRecv <= 1
        /\ round[i].closeAndRecv = 1 =>
               \A t \in Tasks : task[i][t].pc = "done" /\ task[i][t].err = "nil"
        /\ (round[i].pc = "return"
            /\ \A t \in Tasks : task[i][t].pc = "done" /\ task[i][t].err = "nil") =>
               round[i].closeAndRecv = 1
        /\ ((\E t \in Tasks : task[i][t].err # "nil") \/ round[i].err.cause = "train") =>
               round[i].closeAndRecv = 0

\* C8 witness: train is about to return after both tasks sent their
\* datasets and CloseAndRecv was called.
C8_Witness ==
    \E i \in Rounds :
        /\ round[i].pc = "return"
        /\ round[i].closeAndRecv = 1
        /\ \A t \in Tasks : task[i][t].err = "nil" /\ Len(task[i][t].sent) > 1

\* C9 (as claimed): every Stop call returns normally, however many are made.
C9_StopIdempotent == ~panicked /\ stopReturns = stopCalls

\* C10 (as claimed): no call of train begins once done is closed.
C10_NoRoundAfterStop == roundsAfterStop = 0

\* C11 (as claimed): the two tasks of a round are never inside stream.Send
\* on the round's stream at the same time.
C11_SendsSerialized ==
    \A i \in Rounds : Cardinality({t \in Tasks : task[i][t].pc = "sending"}) <= 1

\* C12 (as claimed): once Stop has closed done it stays closed, the
\* KeepAlive of a Serve called after Stop is given the closed channel, and
\* the training loop of such a Serve returns without running any round.
C12_ServeAfterStopRunsNoRound ==
    /\ stopReturns > 0 => done = "closed"
    /\ serveAfterStop => (done = "closed" /\ nRounds = 0 /\ trainCalls = 0)

\* Every step a call of train and its tasks are about to take can be taken
\* with the outcome the collaborator allows: the stream calls succeed unless
\* the round's own deadline has passed, the storage calls and the returns
\* are as they are in any round.
CanProceed(i) ==
    /\ (round[i].pc = "train" /\ ~round[i].expired) =>
           ENABLED (TrainOpen(i, TRUE) /\ round'[i].pc = "wait")
    /\ \A t \in Tasks :
        /\ task[i][t].pc = "open" =>
               \A len \in 0..MaxLen :
                   ENABLED (TaskOpen(i, t, TRUE, len) /\ task'[i][t].pc = "read")
        /\ task[i][t].pc = "read" =>
               ENABLED (TaskRead(i, t) /\ task'[i][t].pc = "send")
        /\ task[i][t].pc = "send" =>
               ENABLED (TaskSendBegin(i, t) /\ task'[i][t].pc = "sending")
        /\ (task[i][t].pc = "sending" /\ ~round[i].expired) =>
               ENABLED (TaskSendEnd(i, t, TRUE) /\ task'[i][t].err = "nil")
    /\ (round[i].pc = "wait" /\ \A t \in Tasks : task[i][t].pc = "done") =>
           ENABLED TrainWait(i)
    /\ (round[i].pc = "close" /\ ~round[i].expired) =>
           ENABLED (TrainCloseAndRecv(i, TRUE) /\ round'[i].err = NoErr)
    /\ round[i].pc = "return" => ENABLED TrainReturn(i)

\* C13: a round that is running while done is closed goes on as without
\* Stop: each of its reads, sends and its finalize can still be made and can
\* still succeed, and it ends only with its own result (nil, a task error,
\* an error of the stream such as the deadline); a.done is not looked at.
C13_StopDoesNotInterruptRound ==
    \A i \in Rounds :
        (done = "closed" /\ InProgress(i)) =>
            /\ CanProceed(i)
            /\ round[i].err.cause \in {"nil", "train", "open", "read", "send", "closeAndRecv"}
            /\ \A t \in Tasks : task[i][t].err \in {"nil", "open", "read", "send"}

\* C13 witness: a round that began before Stop sent after Stop and is about
\* to return nil after CloseAndRecv.
C13_Witness ==
    /\ done = "closed"
    /\ sendAfterStop
    /\ roundsAfterStop = 0
    /\ \E i \in Rounds :
        /\ round[i].pc = "return"
        /\ round[i].err = NoErr
        /\ round[i].closeAndRecv = 1

\* C14: a failed round does not end the loop: Serve returns only through the
\* done branch, after a failure the loop selects again, every round that
\* got past the stream open made its own Train call, and its tasks start
\* with nothing carried over (their own reader, an empty buffer).
C14_RoundFailureNotFatal ==
    /\ (trainerClient /\ servePc = "returned") => done = "closed"
    /\ errorLogged => servePc = "select"
    /\ ~panicked =>
           trainCalls = Cardinality({i \in Rounds : round[i].pc \notin {"idle", "train"}})
    /\ \A i \in Rounds, t \in Tasks :
           task[i][t].pc = "open" => task[i][t] = [IdleTask EXCEPT !.pc = "open"]

\* C14 witness: a round has failed and been logged, done is still open, and
\* the loop is at its select with a tick pending: the next round can begin.
C14_Witness ==
    /\ errorLogged
    /\ done = "open"
    /\ nRounds = 1
    /\ trainCalls = 1
    /\ ENABLED SelectTick

\* C15 (as claimed): once the deadline of a round has passed the round can
\* return, also while one of its tasks is inside a storage open or read
\* that does not return.
C15_DeadlineEndsRound ==
    \A i \in Rounds :
        (round[i].expired /\ round[i].pc = "wait"
         /\ \E t \in Tasks : task[i][t].pc \in {"open", "read"}) =>
            ENABLED TrainWait(i)

\* C16: train goes past eg.Wait only when both tasks have returned, also
\* after a failure, and the error it returns is that of the task that
\* failed first, wrapped with that task's stage name.
C16_TasksJoinedFirstErrorWins ==
    \A i \in Rounds :
        /\ (round[i].pc \in {"close", "return"} /\ round[i].stream # "none") =>
               \A t \in Tasks : task[i][t].pc = "done"
        /\ (round[i].pc = "return" /\ round[i].failed # <<>>) =>
               /\ round[i].err = Wrap(Stage(round[i].failed[1]),
                                      task[i][round[i].failed[1]].err)
               /\ round[i].err.stage \in {"upload download", "upload network topology"}
               /\ round[i].err.cause # "nil"

\* C16 witness: both tasks failed, the network topology task first and for
\* another reason than the download task, and train is about to return.
C16_Witness ==
    \E i \in Rounds :
        /\ round[i].pc = "return"
        /\ round[i].failed = <<"networkTopology", "download">>
        /\ task[i]["networkTopology"].err = "read"
        /\ task[i]["download"].err = "send"
        /\ round[i].err = Wrap("upload network topology", "read")

\* C17: a reader a task opened is closed exactly once by the time the task
\* has returned, on the end-of-stream, read error and send error paths, and
\* no reader is open once train is past eg.Wait.
C17_ReaderClosedOnce ==
    \A i \in Rounds, t \in Tasks :
        /\ task[i][t].closes <= 1
        /\ (task[i][t].reader = "closed") <=> (task[i][t].closes = 1)
        /\ task[i][t].pc = "done" =>
               /\ task[i][t].reader # "open"
               /\ task[i][t].reader = "none" => task[i][t].err = "open"
        /\ round[i].pc \in {"close", "return", "returned"} => task[i][t].reader # "open"

\* C17 witness: train is about to return after one task ended on a send
\* error and the other at end-of-stream, each with its reader closed once.
C17_Witness ==
    \E i \in Rounds :
        /\ round[i].pc = "return"
        /\ task[i]["download"].err = "send"
        /\ task[i]["download"].closes = 1
        /\ task[i]["networkTopology"].err = "nil"
        /\ task[i]["networkTopology"].closes = 1
        /\ \A t \in Tasks : task[i][t].reader = "closed"

\* C18 (as claimed): when both tasks succeeded and CloseAndRecv failed, the
\* error train returns carries the stage tag "finalize".
C18_FinalizeErrorTagged ==
    \A i \in Rounds :
        (round[i].pc = "return" /\ round[i].closeAndRecv = 1 /\ round[i].err # NoErr) =>
            round[i].err.stage = "finalize"

\* C19: without a trainer client Serve starts the heartbeat and returns at
\* once, and no tick, stream open, storage open or Send ever happens; with
\* one, Serve returns only after done was closed; in both cases Serve goes
\* on whatever the keepalive goroutine is doing.
C19_TrainingOnlyWithTrainer ==
    /\ ~trainerClient =>
           /\ servePc \in {"idle", "returned", "crashed"}
           /\ ~tick /\ nRounds = 0 /\ trainCalls = 0
           /\ \A i \in Rounds : round[i].pc = "idle"
           /\ \A i \in Rounds, t \in Tasks : task[i][t].pc = "idle"
           /\ ~sendAfterStop /\ ~sendAfterReturn
    /\ (trainerClient /\ servePc = "returned") => done = "closed"
    /\ servePc # "idle" => keepAlive # "none"
    /\ (servePc = "select" /\ done = "closed") => ENABLED SelectDone
    /\ (servePc = "select" /\ tick /\ nRounds < MaxRounds) => ENABLED SelectTick

\* C19 witness: without a trainer client Serve has returned while done is
\* open and KeepAlive is running.
C19_Witness ==
    /\ ~trainerClient
    /\ servePc = "returned"
    /\ keepAlive = "running"
    /\ keepAliveCalls = 1
    /\ done = "open"

RECURSIVE Payloads(_)
\* The payloads of a sequence of messages, concatenated in send order.
Payloads(msgs) ==
    IF msgs = <<>> THEN <<>>
    ELSE msgs[1].dataset \o Payloads(Tail(msgs))

\* C20: what a task has sent is, in send order, a prefix of its dataset and,
\* once it has succeeded, the whole dataset, byte for byte; it sent one
\* message per read; and each message carries the task's own variant.
C20_PayloadsAreTheDataset ==
    \A i \in Rounds, t \in Tasks :
        LET tk == task[i][t]
            bytes == Payloads(tk.sent)
        IN  /\ \A j \in 1..Len(tk.sent) : tk.sent[j].variant = Variant(t)
            /\ tk.reader = "open" =>
                   /\ Len(bytes) <= tk.len
                   /\ bytes = SubSeq(Dataset(tk.len), 1, Len(bytes))
            /\ (tk.pc = "done" /\ tk.err = "nil") =>
                   /\ bytes = Dataset(tk.len)
                   /\ Len(tk.sent) = tk.reads

\* C20 witness: both tasks of a round have succeeded with datasets of one
\* full buffer and a rest, while the other task was sending too.
C20_Witness ==
    \E i \in Rounds :
        \A t \in Tasks :
            /\ task[i][t].pc = "done"
            /\ task[i][t].err = "nil"
            /\ task[i][t].len = UploadBufferSize + 1
            /\ Len(task[i][t].sent) >= 2

====
